---- MODULE Spec2Model ----
(***************************************************************************)
(* A model of terraformer-ts: the resource record built by the discovery   *)
(* adapters (BaseService.createResource / sanitizeName), the filter        *)
(* parser, the per-category post-convert hooks, and the two renderers of   *)
(* HclGenerator (configuration files and terraform.tfstate).               *)
(*                                                                         *)
(* JavaScript strings are TLA+ strings; a character is a string of length  *)
(* one, read with SubSeq.  A JavaScript value is a record [t, v, items]    *)
(* whose tag t is one of "str", "null", "undef", "bool", "num", "list",    *)
(* "obj".  An object (Record<string, any>) is a sequence of entries        *)
(* [k, val] with distinct keys, in insertion order.                        *)
(***************************************************************************)
EXTENDS Integers, Sequences, FiniteSets, TLC

\* ------------------------------------------------------------------ bounds

\* Longest raw name handed to createResource in the sanitization runs.
MaxNameLen == 3

\* Most resources one adapter discovers before its list is rendered.
MaxResources == 3

\* Most roles one listing of IAM roles returns.
MaxRoles == 2

\* Most runs of one adapter's postConvertHook.
MaxHookRuns == 2

\* The longest filter expression spelt out character by character.
MaxFilterLen == 3

\* ----------------------------------------------------------------- strings

Lower == "abcdefghijklmnopqrstuvwxyz"
Upper == "ABCDEFGHIJKLMNOPQRSTUVWXYZ"
Digits == "0123456789"

CharAt(s, i) == SubSeq(s, i, i)

CharsOf(s) == {CharAt(s, i) : i \in 1..Len(s)}

\* String.prototype.indexOf: the first position of sub in s, 0 when absent.
IndexOf(s, sub) ==
  LET hits == {i \in 1..(Len(s) - Len(sub) + 1) : SubSeq(s, i, i + Len(sub) - 1) = sub}
  IN IF hits = {} THEN 0 ELSE CHOOSE i \in hits : \A j \in hits : i <= j

Includes(s, sub) == IndexOf(s, sub) # 0

StartsWith(s, p) == Len(s) >= Len(p) /\ SubSeq(s, 1, Len(p)) = p

\* The rest of s from position i on (1-based); s.substring(i - 1).
From(s, i) == SubSeq(s, i, Len(s))

\* s.replace(sub, by) with a string pattern: the first occurrence only.
ReplaceFirst(s, sub, by) ==
  LET i == IndexOf(s, sub)
  IN IF i = 0 THEN s
     ELSE SubSeq(s, 1, i - 1) \o by \o From(s, i + Len(sub))

\* s.replace(/sub/g, by) for a literal pattern: every occurrence, left to
\* right, never rescanning the replacement.
RECURSIVE ReplaceAll(_, _, _)
ReplaceAll(s, sub, by) ==
  LET i == IndexOf(s, sub)
  IN IF i = 0 THEN s
     ELSE SubSeq(s, 1, i - 1) \o by \o ReplaceAll(From(s, i + Len(sub)), sub, by)

\* s.split(sep) for a non-empty separator.
RECURSIVE Split(_, _)
Split(s, sep) ==
  LET i == IndexOf(s, sep)
  IN IF i = 0 THEN <<s>>
     ELSE <<SubSeq(s, 1, i - 1)>> \o Split(From(s, i + Len(sep)), sep)

\* The character c mapped through String.prototype.toLowerCase.
LowerChar(c) ==
  LET i == IndexOf(Upper, c) IN IF i = 0 THEN c ELSE CharAt(Lower, i)

RECURSIVE ToLowerCase(_)
ToLowerCase(s) ==
  IF s = "" THEN "" ELSE LowerChar(Head(s)) \o ToLowerCase(Tail(s))

\* All strings over the characters of alphabet with at most n characters.
RECURSIVE StringsUpTo(_, _)
StringsUpTo(alphabet, n) ==
  IF n = 0 THEN {""}
  ELSE LET shorter == StringsUpTo(alphabet, n - 1)
       IN shorter \cup {s \o c : s \in shorter, c \in CharsOf(alphabet)}

\* ------------------------------------------------------- values, objects

Str(s) == [t |-> "str", v |-> s, items |-> <<>>]
Null == [t |-> "null", v |-> "", items |-> <<>>]
Undefined == [t |-> "undef", v |-> "", items |-> <<>>]
Bool(b) == [t |-> "bool", v |-> IF b THEN "true" ELSE "false", items |-> <<>>]
\* A number, kept as its decimal text (String(value)).
Num(text) == [t |-> "num", v |-> text, items |-> <<>>]
List(elems) == [t |-> "list", v |-> "", items |-> elems]
Obj(entries) == [t |-> "obj", v |-> "", items |-> entries]

\* One entry of an object.
Entry(k, val) == [k |-> k, val |-> val]

\* JavaScript truthiness: if (value) ...
Truthy(x) ==
  CASE x.t = "str" -> x.v # ""
    [] x.t = "null" -> FALSE
    [] x.t = "undef" -> FALSE
    [] x.t = "bool" -> x.v = "true"
    [] x.t = "num" -> x.v # "0"
    [] OTHER -> TRUE

\* An optional field of a record: absent, or present with a value.
Absent == <<>>
Present(x) == <<x>>

HasKey(obj, k) == \E i \in 1..Len(obj) : obj[i].k = k

\* obj[k]: undefined for a missing key.
Get(obj, k) ==
  IF HasKey(obj, k)
  THEN obj[CHOOSE i \in 1..Len(obj) : obj[i].k = k].val
  ELSE Undefined

\* obj[k] = val: an existing key keeps its place, a new key goes last.
Put(obj, k, val) ==
  IF HasKey(obj, k)
  THEN [i \in 1..Len(obj) |-> IF obj[i].k = k THEN Entry(k, val) ELSE obj[i]]
  ELSE Append(obj, Entry(k, val))

\* delete obj[k]
Delete(obj, k) == SelectSeq(obj, LAMBDA e : e.k # k)

\* { ...a, ...b }
RECURSIVE Merge(_, _)
Merge(a, b) == IF b = <<>> THEN a ELSE Merge(Put(a, Head(b).k, Head(b).val), Tail(b))

Keys(obj) == [i \in 1..Len(obj) |-> obj[i].k]

\* items.join(sep) over a sequence of strings.
RECURSIVE Join(_, _)
Join(strs, sep) ==
  IF strs = <<>> THEN ""
  ELSE IF Len(strs) = 1 THEN Head(strs)
  ELSE Head(strs) \o sep \o Join(Tail(strs), sep)

\* ------------------------------------------------------- BaseService names

IsAllowedNameChar(c) ==
  Includes(Lower, c) \/ Includes(Upper, c) \/ Includes(Digits, c) \/ c = "_" \/ c = "-"

\* name.replace(/[^a-zA-Z0-9_-]/g, '_')
RECURSIVE ReplaceDisallowed(_)
ReplaceDisallowed(s) ==
  IF s = "" THEN ""
  ELSE (IF IsAllowedNameChar(Head(s)) THEN Head(s) ELSE "_")
       \o ReplaceDisallowed(Tail(s))

\* .replace(/^[0-9]/, '_$&')
PrefixLeadingDigit(s) ==
  IF s # "" /\ Includes(Digits, Head(s)) THEN "_" \o s ELSE s

\* A slip of the second replace: /^[0-9_]/ in place of /^[0-9]/.
sanitizeNamePrefixAlways(name) ==
  LET r == ReplaceDisallowed(name)
  IN ToLowerCase(IF r # "" /\ (Includes(Digits, Head(r)) \/ Head(r) = "_")
                 THEN "_" \o r ELSE r)

sanitizeName(name) == ToLowerCase(PrefixLeadingDigit(ReplaceDisallowed(name)))

providerName == "aws"

\* BaseService.createResource: the record of one discovered native object.
\* ignoreKeys, allowEmptyValues and dependencies are left absent.
createResource(id, name, type, attributes, additionalFields) ==
  [id |-> id,
   type |-> providerName \o "_" \o type,
   name |-> sanitizeName(name),
   provider |-> providerName,
   attributes |-> attributes,
   additionalFields |-> additionalFields,
   dependencies |-> Absent,
   ignoreKeys |-> Absent,
   allowEmptyValues |-> Absent]

\* ------------------------------------------------------------ HclGenerator

\* new RegExp(pattern).test(key) for the patterns used here: literal text,
\* optionally anchored with a leading ^ and a trailing $.
RegexTest(pattern, key) ==
  LET atStart == StartsWith(pattern, "^")
      p1 == IF atStart THEN Tail(pattern) ELSE pattern
      atEnd == p1 # "" /\ CharAt(p1, Len(p1)) = "$"
      lit == IF atEnd THEN SubSeq(p1, 1, Len(p1) - 1) ELSE p1
  IN CASE atStart /\ atEnd -> key = lit
       [] atStart -> StartsWith(key, lit)
       [] atEnd -> Len(key) >= Len(lit) /\ From(key, Len(key) - Len(lit) + 1) = lit
       [] OTHER -> lit = "" \/ Includes(key, lit)

\* patterns?.some(pattern => new RegExp(pattern).test(key))
SomePatternMatches(optPatterns, key) ==
  /\ optPatterns # Absent
  /\ \E i \in 1..Len(optPatterns[1]) : RegexTest(optPatterns[1][i], key)

\* value === null || value === undefined || value === ''
IsEmptyValue(value) ==
  value.t = "null" \/ value.t = "undef" \/ (value.t = "str" /\ value.v = "")

\* A slip of shouldIncludeAttribute: allowEmptyValues is never consulted.
shouldIncludeAttributeNoAllow(key, value, resource) ==
  /\ ~SomePatternMatches(resource.ignoreKeys, key)
  /\ ~IsEmptyValue(value)

shouldIncludeAttribute(key, value, resource) ==
  IF SomePatternMatches(resource.ignoreKeys, key) THEN FALSE
  ELSE IF IsEmptyValue(value)
       THEN SomePatternMatches(resource.allowEmptyValues, key)
       ELSE TRUE

RECURSIVE formatHclValue(_)
formatHclValue(value) ==
  CASE value.t \in {"null", "undef"} -> "null"
    [] value.t = "str" ->
         "\"" \o ReplaceAll(ReplaceAll(value.v, "\"", "\\\""), "\n", "\\n") \o "\""
    [] value.t \in {"num", "bool"} -> value.v
    [] value.t = "list" ->
         "[" \o Join([i \in 1..Len(value.items) |-> formatHclValue(value.items[i])], ", ")
             \o "]"
    [] value.t = "obj" ->
         "{\n    "
         \o Join([i \in 1..Len(value.items) |->
                    value.items[i].k \o " = " \o formatHclValue(value.items[i].val)],
                 ",\n    ")
         \o "\n  }"

\* The key groupResourcesByType files a resource under.
\* A slip: grouping by the provider in place of the type.
GroupKeyByProvider(resource) == resource.provider

GroupKey(resource) == ReplaceFirst(resource.type, resource.provider \o "_", "")

\* groupResourcesByType: an object from group key to the resources of that
\* key, both in first-seen order (no key here is an integer-like string,
\* which Object.entries would move to the front).
RECURSIVE GroupInto(_, _)
GroupInto(grouped, resources) ==
  IF resources = <<>> THEN grouped
  ELSE LET r == Head(resources)
           key == GroupKey(r)
           old == IF HasKey(grouped, key) THEN Get(grouped, key) ELSE <<>>
       IN GroupInto(Put(grouped, key, Append(old, r)), Tail(resources))

groupResourcesByType(resources) == GroupInto(<<>>, resources)

\* The fields of a block were attributes merged second, so that its value
\* of a shared key won.
BlockFieldsAttributesWin(resource) ==
  LET allAttributes == Merge(resource.additionalFields, resource.attributes)
      kept == SelectSeq(allAttributes,
                        LAMBDA e : shouldIncludeAttribute(e.k, e.val, resource))
  IN [i \in 1..Len(kept) |-> [k |-> kept[i].k, text |-> formatHclValue(kept[i].val)]]

\* The fields of one resource block: the merged attributes and
\* additionalFields that pass shouldIncludeAttribute, each with its text.
BlockFields(resource) ==
  LET allAttributes == Merge(resource.attributes, resource.additionalFields)
      kept == SelectSeq(allAttributes,
                        LAMBDA e : shouldIncludeAttribute(e.k, e.val, resource))
  IN [i \in 1..Len(kept) |-> [k |-> kept[i].k, text |-> formatHclValue(kept[i].val)]]

HclBlock(resource) ==
  [type |-> resource.type, name |-> resource.name, fields |-> BlockFields(resource)]

RECURSIVE ConcatAll(_)
ConcatAll(seqs) == IF seqs = <<>> THEN <<>> ELSE Head(seqs) \o ConcatAll(Tail(seqs))

\* generateHclResources: one block per resource, group after group.
generateHclResources(resources) ==
  LET grouped == groupResourcesByType(resources)
  IN ConcatAll([g \in 1..Len(grouped) |->
                 [i \in 1..Len(grouped[g].val) |-> HclBlock(grouped[g].val[i])]])

\* The text generateHclResources builds for one block.
BlockText(block) ==
  "resource \"" \o block.type \o "\" \"" \o block.name \o "\" {\n"
  \o Join([i \in 1..Len(block.fields) |->
             "  " \o block.fields[i].k \o " = " \o block.fields[i].text \o "\n"], "")
  \o "}\n\n"

HclText(blocks) == Join([i \in 1..Len(blocks) |-> BlockText(blocks[i])], "")

\* path.join(dir, fileName)
PathJoin(dir, fileName) ==
  (IF dir # "" /\ CharAt(dir, Len(dir)) = "/" THEN SubSeq(dir, 1, Len(dir) - 1) ELSE dir)
  \o "/" \o fileName

Ext(output) == IF output = "hcl" THEN "tf" ELSE "json"

\* What a written file holds: the provider file, resource blocks (text
\* encoding), grouped resources (JSON encoding) or the state entries.
FileContent(kind, blocks, groups, entries) ==
  [kind |-> kind, blocks |-> blocks, groups |-> groups, entries |-> entries]

WriteOp(path, content) == [path |-> path, content |-> content]

generateProviderFile(outputPath, output) ==
  <<WriteOp(PathJoin(outputPath, "provider." \o Ext(output)),
            FileContent("provider", <<>>, <<>>, <<>>))>>

generateCompactResourceFile(resources, outputPath, output) ==
  <<WriteOp(PathJoin(outputPath, "resources." \o Ext(output)),
            IF output = "hcl"
            THEN FileContent("hcl", generateHclResources(resources), <<>>, <<>>)
            ELSE FileContent("json", <<>>, groupResourcesByType(resources), <<>>))>>

generateSeparateResourceFiles(resources, outputPath, output) ==
  LET grouped == groupResourcesByType(resources)
  IN [g \in 1..Len(grouped) |->
       WriteOp(PathJoin(outputPath, grouped[g].k \o "." \o Ext(output)),
               IF output = "hcl"
               THEN FileContent("hcl", generateHclResources(grouped[g].val), <<>>, <<>>)
               ELSE FileContent("json", <<>>, <<grouped[g]>>, <<>>))]

\* generateFiles: the writes it performs, in order.
generateFiles(resources, outputPath, isCompact, output) ==
  generateProviderFile(outputPath, output)
  \o (IF isCompact
      THEN generateCompactResourceFile(resources, outputPath, output)
      ELSE generateSeparateResourceFiles(resources, outputPath, output))

\* The state entry carried what the configuration block carries: the merged
\* mapping without the fields shouldIncludeAttribute drops.
StateEntryAsRendered(resource) ==
  [mode |-> "managed",
   type |-> resource.type,
   name |-> resource.name,
   provider |-> "provider[\"registry.terraform.io/hashicorp/" \o resource.provider \o "\"]",
   attributes |-> SelectSeq(Merge(resource.attributes, resource.additionalFields),
                            LAMBDA e : shouldIncludeAttribute(e.k, e.val, resource)),
   dependencies |-> IF resource.dependencies = Absent THEN <<>>
                    ELSE resource.dependencies[1]]

\* One entry of the state document (the random private token is left out).
StateEntry(resource) ==
  [mode |-> "managed",
   type |-> resource.type,
   name |-> resource.name,
   provider |-> "provider[\"registry.terraform.io/hashicorp/" \o resource.provider \o "\"]",
   attributes |-> resource.attributes,
   dependencies |-> IF resource.dependencies = Absent THEN <<>>
                    ELSE resource.dependencies[1]]

\* The state document held the first resource of its directory only.
generateTerraformStateOfFirst(resources, outputPath) ==
  <<WriteOp(PathJoin(outputPath, "terraform.tfstate"),
            FileContent("state", <<>>, <<>>, <<StateEntry(resources[1])>>))>>

\* generateTerraformState: the one write it performs.
generateTerraformState(resources, outputPath) ==
  <<WriteOp(PathJoin(outputPath, "terraform.tfstate"),
            FileContent("state", <<>>, <<>>,
                        [i \in 1..Len(resources) |-> StateEntry(resources[i])]))>>

\* fs.writeFile for each write in turn: a later write replaces an earlier
\* one of the same path.
RECURSIVE WriteAll(_, _)
WriteAll(fs, writes) ==
  IF writes = <<>> THEN fs
  ELSE WriteAll((Head(writes).path :> Head(writes).content) @@ fs, Tail(writes))

NoFiles == [path \in {} |-> FileContent("", <<>>, <<>>, <<>>)]

\* ------------------------------------------------- adapters and hooks

\* a === b for two values: arrays and objects are equal only by identity,
\* which two separately built values never have.
StrictEq(a, b) ==
  /\ a.t = b.t
  /\ a.t \in {"str", "num", "bool"} => a.v = b.v
  /\ ~(a.t \in {"list", "obj"})

\* escapeAwsInterpolation: policy.replace(/\$\{/g, '$${')
escapeAwsInterpolation(policy) == ReplaceAll(policy, "${", "$${")

\* `<<POLICY\n${policy}\nPOLICY`
WrapPolicy(policy) == "<<POLICY\n" \o escapeAwsInterpolation(policy) \o "\nPOLICY"

\* The policy-wrapping step the IAM, SNS and SQS hooks share: a truthy field
\* is replaced by its escaped, wrapped text.
WrapField(resource, key) ==
  IF Truthy(Get(resource.attributes, key))
  THEN [resource EXCEPT
          !.attributes = Put(@, key, Str(WrapPolicy(Get(resource.attributes, key).v)))]
  ELSE resource

IamPolicyTypes ==
  {"aws_iam_policy", "aws_iam_user_policy", "aws_iam_group_policy", "aws_iam_role_policy"}

\* IAMService.postConvertHook, for one resource of the list.
IamHookResource(resource) ==
  IF resource.type \in IamPolicyTypes
  THEN WrapField(resource, "policy")
  ELSE IF resource.type = "aws_iam_role"
          /\ Truthy(Get(resource.attributes, "assume_role_policy"))
  THEN WrapField(resource, "assume_role_policy")
  ELSE IF resource.type = "aws_iam_instance_profile"
  THEN [resource EXCEPT !.attributes = Delete(@, "roles")]
  ELSE resource

\* SNSService.postConvertHook, for one resource of the list.
SnsHookResource(resource) ==
  IF resource.type = "aws_sns_topic" THEN WrapField(resource, "policy") ELSE resource

MatchingZonesOfAnyId(resource, all) ==
  {j \in 1..Len(all) : all[j].type = "aws_route53_zone"}

\* The zone resources of the list whose zone_id metadata is the record's
\* zone_id, by position.
MatchingZones(resource, all) ==
  {j \in 1..Len(all) :
     /\ all[j].type = "aws_route53_zone"
     /\ StrictEq(Get(all[j].additionalFields, "zone_id"),
                 Get(resource.attributes, "zone_id"))}

\* `\${aws_route53_zone.${zoneResource.name}.zone_id}`
\* A slip: the reference names the record in place of the zone.
ZoneReferenceToSelf(zoneResource, resource) ==
  "${aws_route53_zone." \o resource.name \o ".zone_id}"

ZoneReference(zoneResource, resource) ==
  "${aws_route53_zone." \o zoneResource.name \o ".zone_id}"

\* Route53Service.postConvertHook, for one resource of the list `all`.  The
\* hook changes no zone resource, so the zones a record is matched against
\* are those of the list as the hook found it.
Route53HookResource(resource, all) ==
  IF resource.type = "aws_route53_record"
  THEN LET hits == MatchingZones(resource, all)
           first == CHOOSE j \in hits : \A h \in hits : j <= h
           linked == IF hits = {} THEN resource
                     ELSE [resource EXCEPT
                             !.attributes =
                               Put(@, "zone_id", Str(ZoneReference(all[first], resource)))]
       IN IF Truthy(Get(linked.additionalFields, "alias"))
          THEN [linked EXCEPT !.attributes = Delete(@, "ttl")]
          ELSE linked
  ELSE IF resource.type = "aws_route53_health_check"
  THEN LET children == Get(resource.additionalFields, "child_healthchecks")
       IN IF (~Truthy(children) \/ Len(children.items) = 0)
             /\ Truthy(Get(resource.additionalFields, "child_health_threshold"))
          THEN [resource EXCEPT !.attributes = Delete(@, "child_health_threshold")]
          ELSE resource
  ELSE resource

\* service.postConvertHook(), by category.
postConvertHook(category, list) ==
  CASE category = "iam" -> [i \in 1..Len(list) |-> IamHookResource(list[i])]
    [] category = "sns" -> [i \in 1..Len(list) |-> SnsHookResource(list[i])]
    [] category = "route53" -> [i \in 1..Len(list) |-> Route53HookResource(list[i], list)]
    [] OTHER -> list

\* name.endsWith('.') ? name.slice(0, -1) : name
StripTrailingDot(name) ==
  IF name # "" /\ CharAt(name, Len(name)) = "." THEN SubSeq(name, 1, Len(name) - 1)
  ELSE name

cleanZoneId(id) == ReplaceFirst(id, "/hostedzone/", "")

wildcardUnescape(name) ==
  IF Includes(name, "\\052") THEN ReplaceFirst(name, "\\052", "*") ELSE name

\* Route53Service.loadResourceRecordSets: the records of one zone (one page
\* of the listing).  Of additionalFields, the routing-policy fields the
\* hook never reads are left out.
loadResourceRecordSets(zoneId, recordSets) ==
  [i \in 1..Len(recordSets) |->
     LET rs == recordSets[i]
         recordName == wildcardUnescape(rs.Name)
         id == zoneId \o "_" \o recordName \o "_" \o rs.Type \o "_" \o rs.SetIdentifier
     IN createResource(id, id, "route53_record",
                       <<Entry("name", Str(StripTrailingDot(recordName))),
                         Entry("zone_id", Str(zoneId)),
                         Entry("type", Str(rs.Type)),
                         Entry("set_identifier", Str(rs.SetIdentifier))>>,
                       <<Entry("ttl", rs.TTL),
                         Entry("records", List(<<>>)),
                         Entry("alias", rs.AliasTarget),
                         Entry("health_check_id", Undefined),
                         Entry("multivalue_answer_routing_policy", Bool(FALSE))>>)]

\* Route53Service.loadHostedZones: each zone, followed by its records.
RECURSIVE loadHostedZones(_)
loadHostedZones(hostedZones) ==
  IF hostedZones = <<>> THEN <<>>
  ELSE LET zone == Head(hostedZones)
           zoneId == cleanZoneId(zone.Id)
       IN <<createResource(zoneId, zoneId \o "_" \o StripTrailingDot(zone.Name),
                           "route53_zone",
                           <<Entry("name", Str(zone.Name)),
                             Entry("force_destroy", Bool(FALSE))>>,
                           <<Entry("zone_id", Str(zoneId)),
                             Entry("name_servers", List(<<>>)),
                             Entry("comment", Undefined),
                             Entry("private_zone", Bool(FALSE))>>)>>
          \o loadResourceRecordSets(zoneId, zone.RecordSets)
          \o loadHostedZones(Tail(hostedZones))

\* String(n) for a small count.
NumText(n) == CharAt(Digits, n + 1)

\* Route53Service.loadHealthChecks (the CloudWatch alarm fields, which the
\* hook never reads, are left out).  ChildHealthChecks is optional.
loadHealthChecks(healthChecks) ==
  [i \in 1..Len(healthChecks) |->
     LET hc == healthChecks[i]
         children == hc.ChildHealthChecks
     IN createResource(hc.Id, hc.Id \o "_" \o hc.Type, "route53_health_check",
                       <<>>,
                       <<Entry("type", Str(hc.Type)),
                         Entry("child_health_threshold",
                               IF children = Absent THEN Undefined
                               ELSE Num(NumText(Len(children[1])))),
                         Entry("child_healthchecks",
                               IF children = Absent THEN List(<<>>)
                               ELSE List([j \in 1..Len(children[1]) |->
                                            Str(children[1][j])]))>>)]

\* IAMService.loadPolicies, loadRoles and loadInstanceProfiles, in the order
\* initResources runs them (users and groups, and the per-role policy
\* listings, add resources the hook leaves alone and are left out).
iamInitResources(policyNames, roles, profileNames) ==
  [i \in 1..Len(policyNames) |->
     createResource("arn:aws:iam::1:policy/" \o policyNames[i], policyNames[i],
                    "iam_policy",
                    <<Entry("name", Str(policyNames[i])), Entry("description", Undefined)>>,
                    <<Entry("arn", Str("arn:aws:iam::1:policy/" \o policyNames[i])),
                      Entry("path", Str("/"))>>)]
  \o [i \in 1..Len(roles) |->
        createResource(roles[i].RoleName, roles[i].RoleName, "iam_role",
                       <<Entry("name", Str(roles[i].RoleName)),
                         Entry("assume_role_policy", roles[i].AssumeRolePolicyDocument)>>,
                       <<Entry("arn", Str("arn:aws:iam::1:role/" \o roles[i].RoleName)),
                         Entry("path", Str("/"))>>)]
  \o [i \in 1..Len(profileNames) |->
        createResource(profileNames[i], profileNames[i], "iam_instance_profile",
                       <<Entry("name", Str(profileNames[i]))>>,
                       <<Entry("path", Str("/"))>>)]

\* topicArn.split(':').pop() || topicArn
TopicName(topicArn) ==
  LET parts == Split(topicArn, ":")
  IN IF parts[Len(parts)] # "" THEN parts[Len(parts)] ELSE topicArn

\* SNSService.loadTopics: each topic, followed by its confirmed
\* subscriptions.
RECURSIVE snsInitResources(_)
snsInitResources(topics) ==
  IF topics = <<>> THEN <<>>
  ELSE LET topic == Head(topics)
           name == TopicName(topic.TopicArn)
           confirmed == SelectSeq(topic.Subscriptions,
                                  LAMBDA sub : sub # "" /\ sub # "PendingConfirmation")
       IN <<createResource(topic.TopicArn, name, "sns_topic",
                           <<Entry("name", Str(name))>>,
                           <<Entry("arn", Str(topic.TopicArn)), Entry("name", Str(name))>>)>>
          \o [i \in 1..Len(confirmed) |->
                createResource(confirmed[i], confirmed[i], "sns_topic_subscription",
                               <<Entry("topic_arn", Str(topic.TopicArn)),
                                 Entry("protocol", Str("email"))>>,
                               <<Entry("arn", Str(confirmed[i]))>>)]
          \o snsInitResources(Tail(topics))

\* ----------------------------------------- EC2 and S3 adapters, filters

\* EC2Service.generateInstanceName / generateVpcName: the Name tag, or the
\* kind and the native id.  A tag list without a Name tag, and a Name tag
\* of "", both read as "" here: the code falls back on either.
generateInstanceName(instance) ==
  IF instance.NameTag # "" THEN instance.NameTag ELSE "instance-" \o instance.InstanceId

generateVpcName(vpc) ==
  IF vpc.NameTag # "" THEN vpc.NameTag ELSE "vpc-" \o vpc.VpcId

\* The Tags list of a native object, as the value of additionalFields.tags.
TagsOf(nameTag) ==
  IF nameTag = "" THEN List(<<>>)
  ELSE List(<<Obj(<<Entry("Key", Str("Name")), Entry("Value", Str(nameTag))>>)>>)

\* EC2Service.loadInstances over the instances of the reservations, in
\* order.  Of the fields of mapInstanceAttributes the model keeps
\* instance_type, ami and monitoring.
loadInstances(instances) ==
  LET live == SelectSeq(instances,
                        LAMBDA inst : inst.InstanceId # "" /\ inst.State # "terminated")
  IN [i \in 1..Len(live) |->
       createResource(live[i].InstanceId, generateInstanceName(live[i]), "instance",
                      <<Entry("instance_type", Str(live[i].InstanceType)),
                        Entry("ami", Str("ami-1")),
                        Entry("monitoring", Bool(FALSE))>>,
                      <<Entry("tags", TagsOf(live[i].NameTag))>>)]

\* EC2Service.loadVpcs; of mapVpcAttributes the model keeps cidr_block.
loadVpcs(vpcs) ==
  LET known == SelectSeq(vpcs, LAMBDA vpc : vpc.VpcId # "")
  IN [i \in 1..Len(known) |->
       createResource(known[i].VpcId, generateVpcName(known[i]), "vpc",
                      <<Entry("cidr_block", Str("10.0.0.0/16"))>>,
                      <<Entry("tags", TagsOf(known[i].NameTag))>>)]

\* EC2Service.initResources, in an account that has no subnets and no
\* security groups.
ec2InitResources(listing) == loadInstances(listing.Instances) \o loadVpcs(listing.Vpcs)

\* S3Service.loadBuckets
loadBuckets(buckets) ==
  LET named == SelectSeq(buckets, LAMBDA bucket : bucket # "")
  IN [i \in 1..Len(named) |->
       createResource(named[i], named[i], "s3_bucket",
                      <<Entry("bucket", Str(named[i])),
                        Entry("arn", Str("arn:aws:s3:::" \o named[i]))>>,
                      <<Entry("creation_date", Str("2024-01-01"))>>)]

\* service.initResources(), by category: the list the adapter is left with.
initResources(category, listing) ==
  CASE category = "ec2" -> ec2InitResources(listing)
    [] category = "s3" -> loadBuckets(listing)
    [] category = "sns" -> snsInitResources(listing)

\* parseFilter (the same code in every adapter): the list of predicates a
\* filter expression stands for.
parseFilter(rawFilter) ==
  IF ~Includes(rawFilter, "Name=") /\ Includes(rawFilter, "=")
  THEN LET parts == Split(rawFilter, "=")
       IN <<[serviceName |-> parts[1],
             fieldPath |-> "id",
             acceptableValues |-> Split(parts[2], ":")]>>
  ELSE LET parts == Split(rawFilter, ";")
           serviceName == IF StartsWith(parts[1], "Type=") THEN From(parts[1], 6) ELSE ""
           fieldPath == IF Len(parts) >= 2 /\ StartsWith(parts[2], "Name=")
                        THEN From(parts[2], 6) ELSE parts[1]
           acceptableValues == IF Len(parts) >= 3 /\ StartsWith(parts[3], "Value=")
                               THEN Split(From(parts[3], 7), ":") ELSE <<>>
       IN <<[serviceName |-> serviceName,
             fieldPath |-> fieldPath,
             acceptableValues |-> acceptableValues]>>

\* ResourceFilter.isApplicable
isApplicable(filter, resourceName) ==
  filter.serviceName = "" \/ filter.serviceName = resourceName

\* -------------------------------------------------------------- Terraformer

\* Object.keys(AWSProvider.getSupportedServices())
supportedServices ==
  <<"ec2", "s3", "iam", "rds", "lambda", "cloudformation", "route53",
    "elasticache", "elb", "alb", "ecs", "eks", "elasticsearch", "kinesis",
    "sns", "sqs", "dynamodb", "cloudfront", "cloudwatch", "logs",
    "secretsmanager", "kms">>

\* array.includes(x)
ArrayIncludes(array, x) == \E i \in 1..Len(array) : array[i] = x

\* Terraformer.filterServices
filterServices(requestedResources, availableServices, excludes) ==
  LET services == IF Len(requestedResources) > 0 /\ ~ArrayIncludes(requestedResources, "*")
                  THEN SelectSeq(availableServices,
                                 LAMBDA svc : ArrayIncludes(requestedResources, svc))
                  ELSE availableServices
  IN IF Len(excludes) > 0
     THEN SelectSeq(services, LAMBDA svc : ~ArrayIncludes(excludes, svc))
     ELSE services

\* The value the local parsedFilters takes for each expression in the loop
\* of applyFilters.
ParsedFilters(filters) == [i \in 1..Len(filters) |-> parseFilter(filters[i])]

\* Terraformer.applyFilters: the adapter's list when it returns.  The loop
\* computes parsedFilters for each expression and does nothing with it.
applyFilters(list, filters) ==
  LET parsed == ParsedFilters(filters)
  IN list

\* Terraformer.groupResourcesByService: the same keys as groupResourcesByType.
groupResourcesByService(list) == GroupInto(<<>>, list)

\* Terraformer.resolvePathPattern over the variables output, provider and
\* service, in that order: the first occurrence of each placeholder.
resolvePathPattern(pattern, outputPath, provider, serviceName) ==
  ReplaceFirst(ReplaceFirst(ReplaceFirst(pattern, "{output}", outputPath),
                            "{provider}", provider),
               "{service}", serviceName)

\* Terraformer.generateOutput, pass by pass of its loop: the group's name,
\* its directory, and the writes of generateFiles and generateTerraformState.
ServiceOutputs(list, opts) ==
  LET outputPath == IF opts.pathOutput # "" THEN opts.pathOutput ELSE "generated"
      pathPattern == IF opts.pathPattern # "" THEN opts.pathPattern
                     ELSE "{output}/{provider}/{service}/"
      outputFormat == IF opts.output # "" THEN opts.output ELSE "hcl"
      resourcesByService == groupResourcesByService(list)
  IN [g \in 1..Len(resourcesByService) |->
       LET serviceOutputPath == resolvePathPattern(pathPattern, outputPath, providerName,
                                                   resourcesByService[g].k)
       IN [serviceName |-> resourcesByService[g].k,
           serviceOutputPath |-> serviceOutputPath,
           writes |-> generateFiles(resourcesByService[g].val, serviceOutputPath,
                                    opts.compact, outputFormat)
                      \o generateTerraformState(resourcesByService[g].val,
                                                serviceOutputPath)]]

\* Terraformer.generateOutput: the writes it performs, in order.
generateOutput(list, opts) ==
  LET outputs == ServiceOutputs(list, opts)
  IN ConcatAll([g \in 1..Len(outputs) |-> outputs[g].writes])

\* Logger calls: the level and the message.
Info(message) == [level |-> "info", message |-> message]
LogError(message) == [level |-> "error", message |-> message]

\* ------------------------------------------------------------------- state

VARIABLES
  pc,        \* the position of the run being modelled
  rawName,   \* the native name a discovery adapter hands to createResource
  record,    \* one resource record (built by createResource, or handed to the renderer)
  renamed,   \* sanitizeName applied to the record's name once more
  rendered,  \* the blocks generateHclResources made of record
  resources, \* BaseService.resources: the list an adapter accumulates
  files,     \* the file system: path -> content of the file written there
  compact,   \* ImportOptions.compact
  output,    \* HclGenerator.output: "hcl" or "json"
  service,   \* the category whose adapter is at work
  hookRuns,  \* how many times that adapter's postConvertHook has run
  discovered, \* the adapter's list as initResources left it
  firstPass, \* the adapter's list after the first run of the hook
  options,   \* the ImportOptions handed to Terraformer.import
  progressCallback, \* whether a progress callback was handed to it
  servicesToImport, \* import: the categories filterServices kept
  idx,       \* import: the loop index i
  allResources, \* import: the accumulated list
  parsedFilters, \* applyFilters: what parseFilter made of each expression
  found,     \* every resource initResources discovered, with its category
  progress,  \* the calls made to the progress callback
  thrown,    \* the error import rejects with ("" while it has not)
  logged     \* the calls made to the logger

vars == <<pc, rawName, record, renamed, rendered, resources, files, compact, output,
          service, hookRuns, discovered, firstPass,
          options, progressCallback, servicesToImport, idx, allResources,
          parsedFilters, found, progress, thrown, logged>>

sanitizeVars == <<rawName, renamed>>
renderVars == <<resources, files, compact, output>>
hookVars == <<service, hookRuns, discovered, firstPass>>
importVars == <<options, progressCallback, servicesToImport, idx, allResources,
                parsedFilters, found, progress, thrown, logged>>

\* ImportOptions with every optional field left out ("" and FALSE stand
\* for an absent field: the code reads each through || or a truth test).
NoOptions == [resources |-> <<>>, excludes |-> <<>>, filters |-> <<>>,
              verbose |-> FALSE, compact |-> FALSE, output |-> "",
              pathOutput |-> "", pathPattern |-> ""]

NoRecord == [id |-> "", type |-> "", name |-> "", provider |-> "",
             attributes |-> <<>>, additionalFields |-> <<>>,
             dependencies |-> Absent, ignoreKeys |-> Absent,
             allowEmptyValues |-> Absent]

\* The variables of the other runs, at rest.
SanitizeIdle == rawName = "" /\ renamed = ""
IncludeIdle == rendered = <<>>
RenderIdle == resources = <<>> /\ files = NoFiles /\ compact = FALSE /\ output = "hcl"
HookIdle == service = "" /\ hookRuns = 0 /\ discovered = <<>> /\ firstPass = <<>>
ImportIdle ==
  /\ options = NoOptions /\ progressCallback = FALSE
  /\ servicesToImport = <<>> /\ idx = 0 /\ allResources = <<>>
  /\ parsedFilters = <<>> /\ found = <<>> /\ progress = <<>> /\ thrown = ""
  /\ logged = <<>>

\* ------------------------------------------- sanitization (SpecSanitize)

\* The characters raw names are drawn from: a lowercase and an uppercase
\* letter, a digit, the two allowed punctuation marks and a disallowed one.
NameAlphabet == "aZ7_-."

RawNames == StringsUpTo(NameAlphabet, MaxNameLen)

InitSanitize ==
  /\ pc = "start"
  /\ rawName \in RawNames
  /\ record = NoRecord
  /\ renamed = ""
  /\ IncludeIdle /\ RenderIdle /\ HookIdle /\ ImportIdle

\* An adapter builds the record of a native object called rawName.
CreateResource ==
  /\ pc = "start"
  /\ record' = createResource(rawName, rawName, "sqs_queue", <<>>, <<>>)
  /\ pc' = "created"
  /\ UNCHANGED <<rawName, renamed, rendered, renderVars, hookVars, importVars>>

\* The record's name is sanitized a second time.
SanitizeAgain ==
  /\ pc = "created"
  /\ renamed' = sanitizeName(record.name)
  /\ pc' = "resanitized"
  /\ UNCHANGED <<rawName, record, rendered, renderVars, hookVars, importVars>>

NextSanitize == CreateResource \/ SanitizeAgain

SpecSanitize == InitSanitize /\ [][NextSanitize]_vars

\* ^[_a-zA-Z][_a-zA-Z0-9-]*$
MatchesIdentifier(s) ==
  /\ s # ""
  /\ Head(s) = "_" \/ Includes(Lower, Head(s)) \/ Includes(Upper, Head(s))
  /\ \A i \in 1..Len(s) : IsAllowedNameChar(CharAt(s, i))

IsLowercase(s) == \A i \in 1..Len(s) : ~Includes(Upper, CharAt(s, i))

\* C2: sanitizing a sanitized name changes nothing:
\* sanitizeName(sanitizeName(s)) = sanitizeName(s) for every raw name s.
C2_SanitizeIdempotent ==
  pc = "resanitized" => renamed = record.name

\* C2 witness: a raw name the first pass had to rewrite (a leading digit, an
\* uppercase letter and a disallowed character) has been sanitized twice.
C2_Witness ==
  /\ pc = "resanitized"
  /\ rawName = "7Z."
  /\ record.name = "_7z_"

\* C3 as claimed: the name of every record createResource builds is
\* lowercase and matches ^[_a-zA-Z][_a-zA-Z0-9-]*$, the empty raw name and
\* raw names starting with '-' included.
C3_NameMatchesIdentifier ==
  pc # "start" => IsLowercase(record.name) /\ MatchesIdentifier(record.name)

\* ------------------------------------- field inclusion (SpecInclude)

\* The values a field of the rendered resource takes.
FieldValues == {Str(""), Str("x"), Null, Undefined}

\* attributes over the keys a and b, each absent or present, in that order.
AttributeObjects ==
  {<<>>}
  \cup {<<Entry("a", va)>> : va \in FieldValues}
  \cup {<<Entry("b", vb)>> : vb \in FieldValues}
  \cup {<<Entry("a", va), Entry("b", vb)>> : va \in FieldValues, vb \in FieldValues}

AdditionalObjects ==
  {<<>>, <<Entry("a", Str("y"))>>, <<Entry("a", Str(""))>>, <<Entry("ab", Str(""))>>}

PatternLists ==
  {Absent, Present(<<>>), Present(<<"a">>), Present(<<"^a$">>), Present(<<"b">>)}

OutputDir == "generated/aws/out"

StatePath == PathJoin(OutputDir, "terraform.tfstate")

InitInclude ==
  /\ pc = "start"
  /\ \E attrs \in AttributeObjects, extra \in AdditionalObjects,
        ign \in PatternLists, allow \in PatternLists :
       record = [id |-> "id-1", type |-> "aws_sqs_queue", name |-> "q",
                 provider |-> providerName,
                 attributes |-> attrs, additionalFields |-> extra,
                 dependencies |-> Absent,
                 ignoreKeys |-> ign, allowEmptyValues |-> allow]
  /\ rendered = <<>>
  /\ SanitizeIdle /\ RenderIdle /\ HookIdle /\ ImportIdle

\* The text encoding renders the one resource.
RenderResource ==
  /\ pc = "start"
  /\ rendered' = generateHclResources(<<record>>)
  /\ pc' = "rendered"
  /\ UNCHANGED <<record, sanitizeVars, renderVars, hookVars, importVars>>

\* HclGenerator.generateTerraformState over the same one resource.
StateOfResource ==
  /\ pc = "rendered"
  /\ files' = WriteAll(files, generateTerraformState(<<record>>, OutputDir))
  /\ pc' = "done"
  /\ UNCHANGED <<record, rendered, sanitizeVars, resources, compact, output, hookVars,
                 importVars>>

NextInclude == RenderResource \/ StateOfResource

SpecInclude == InitInclude /\ [][NextInclude]_vars

\* The keys of the fields emitted in the first rendered block.
EmittedKeys == [i \in 1..Len(rendered[1].fields) |-> rendered[1].fields[i].k]

InSeq(x, seq) == \E i \in 1..Len(seq) : seq[i] = x

\* The field-inclusion rule as the claim words it.
MatchesNoIgnore(k) ==
  record.ignoreKeys = Absent
  \/ \A i \in 1..Len(record.ignoreKeys[1]) : ~RegexTest(record.ignoreKeys[1][i], k)

MatchesSomeAllow(k) ==
  record.allowEmptyValues # Absent
  /\ \E i \in 1..Len(record.allowEmptyValues[1]) :
       RegexTest(record.allowEmptyValues[1][i], k)

NotEmpty(val) == ~(val.t \in {"null", "undef"}) /\ val # Str("")

\* C8: in text encoding a field (k, v) of the merged mapping is emitted iff
\* k matches no pattern of ignoreKeys and (v is not null, absent or "" or k
\* matches a pattern of allowEmptyValues); {a: "", b: "x"} renders a and b
\* with allowEmptyValues ["a"] and only b without allowEmptyValues.
C8_FieldInclusion ==
  pc = "rendered" =>
    LET merged == Merge(record.attributes, record.additionalFields)
    IN /\ Len(rendered) = 1
       /\ \A i \in 1..Len(merged) :
            InSeq(merged[i].k, EmittedKeys)
              <=> (MatchesNoIgnore(merged[i].k)
                   /\ (NotEmpty(merged[i].val) \/ MatchesSomeAllow(merged[i].k)))
       /\ \A i \in 1..Len(EmittedKeys) : HasKey(merged, EmittedKeys[i])
       /\ (/\ record.attributes = <<Entry("a", Str("")), Entry("b", Str("x"))>>
           /\ record.additionalFields = <<>>
           /\ record.ignoreKeys = Absent)
          => /\ record.allowEmptyValues = Present(<<"a">>) => EmittedKeys = <<"a", "b">>
             /\ record.allowEmptyValues = Absent => EmittedKeys = <<"b">>

\* C8 witness: {a: "", b: "x"} with allowEmptyValues ["a"] has been rendered
\* with both fields, the empty one as "".
C8_Witness ==
  /\ pc = "rendered"
  /\ record.attributes = <<Entry("a", Str("")), Entry("b", Str("x"))>>
  /\ record.additionalFields = <<>>
  /\ record.ignoreKeys = Absent
  /\ record.allowEmptyValues = Present(<<"a">>)
  /\ rendered[1].fields = <<[k |-> "a", text |-> "\"\""], [k |-> "b", text |-> "\"x\""]>>

\* The places of the first rendered block that hold the field k.
FieldsNamed(k) ==
  {i \in 1..Len(rendered[1].fields) : rendered[1].fields[i].k = k}

SharedKeys ==
  {k \in {"a", "b", "ab"} : HasKey(record.attributes, k) /\ HasKey(record.additionalFields, k)}

\* C23 as claimed: a key of both attributes and additionalFields is in the
\* block exactly once, with the additionalFields value.
C23_SharedKeyOnceAsClaimed ==
  pc = "rendered" =>
    \A k \in SharedKeys :
      /\ Cardinality(FieldsNamed(k)) = 1
      /\ \A i \in FieldsNamed(k) :
           rendered[1].fields[i].text = formatHclValue(Get(record.additionalFields, k))

\* C23 amended: a key of both attributes and additionalFields is in the
\* block at most once and only with the additionalFields value, never with
\* the attributes value; it is there exactly once when it matches no
\* ignoreKeys pattern and the additionalFields value is not empty or the key
\* matches allowEmptyValues, and not at all otherwise.
C23_SharedKeyAdditionalWins ==
  pc = "rendered" =>
    \A k \in SharedKeys :
      LET val == Get(record.additionalFields, k)
      IN /\ Cardinality(FieldsNamed(k)) =
              IF MatchesNoIgnore(k) /\ (NotEmpty(val) \/ MatchesSomeAllow(k))
              THEN 1 ELSE 0
         /\ \A i \in FieldsNamed(k) :
              /\ rendered[1].fields[i].text = formatHclValue(val)
              /\ val = Str("y") => rendered[1].fields[i].text = "\"y\""
              /\ val = Str("") => rendered[1].fields[i].text = "\"\""

\* C23 witness: {a: "x"} with additionalFields {a: "y"} has been rendered
\* with the one field a = "y".
C23_Witness ==
  /\ pc = "rendered"
  /\ record.attributes = <<Entry("a", Str("x"))>>
  /\ record.additionalFields = <<Entry("a", Str("y"))>>
  /\ record.ignoreKeys = Absent
  /\ rendered[1].fields = <<[k |-> "a", text |-> "\"y\""]>>

RenderTypes == {"sqs_queue", "sns_topic"}
RenderNames == {"q1", "Q1", "q.2"}

InitRender ==
  /\ pc = "discover"
  /\ resources = <<>>
  /\ files = NoFiles
  /\ compact \in BOOLEAN
  /\ output \in {"hcl", "json"}
  /\ record = NoRecord
  /\ SanitizeIdle /\ IncludeIdle /\ HookIdle /\ ImportIdle

\* An adapter discovers one more native object: createResource, addResource.
AddResource ==
  /\ pc = "discover"
  /\ Len(resources) < MaxResources
  /\ \E type \in RenderTypes, raw \in RenderNames :
       resources' = Append(resources,
                           createResource(raw, raw, type,
                                          <<Entry("name", Str(raw))>>, <<>>))
  /\ UNCHANGED <<pc, record, rendered, sanitizeVars, files, compact, output, hookVars, importVars>>

\* HclGenerator.generateFiles over the discovered list.
GenerateFiles ==
  /\ pc = "discover"
  /\ files' = WriteAll(files, generateFiles(resources, OutputDir, compact, output))
  /\ pc' = "files"
  /\ UNCHANGED <<record, rendered, sanitizeVars, resources, compact, output, hookVars, importVars>>

\* HclGenerator.generateTerraformState over the same list and directory.
GenerateTerraformState ==
  /\ pc = "files"
  /\ files' = WriteAll(files, generateTerraformState(resources, OutputDir))
  /\ pc' = "done"
  /\ UNCHANGED <<record, rendered, sanitizeVars, resources, compact, output, hookVars, importVars>>

NextRender == AddResource \/ GenerateFiles \/ GenerateTerraformState

SpecRender == InitRender /\ [][NextRender]_vars

\* The resource blocks of every configuration file on disk.
ConfigBlocks ==
  UNION {{files[p].blocks[i] : i \in 1..Len(files[p].blocks)} : p \in DOMAIN files}

\* C1 as claimed: every (type, name) of a resource block of the configuration
\* files is the (type, name) of exactly one entry of the state document.
C1_ConfigStateParity ==
  (pc = "done" /\ output = "hcl") =>
    \A b \in ConfigBlocks :
      Cardinality({i \in 1..Len(files[StatePath].entries) :
                     /\ files[StatePath].entries[i].type = b.type
                     /\ files[StatePath].entries[i].name = b.name}) = 1

\* The paths of the resource files on disk.
ResourceFilePaths == {p \in DOMAIN files : files[p].kind \in {"hcl", "json"}}

TypesOf(list) == {list[i].type : i \in 1..Len(list)}

Header(x) == <<x.type, x.name>>

\* C9: with compact=false and text encoding, resources of k distinct types
\* give exactly k resource files and one provider.tf, and the blocks of each
\* resource file are those of the resources of one type, all of them and no
\* other.
C9_OneFilePerType ==
  (pc \in {"files", "done"} /\ ~compact /\ output = "hcl") =>
    /\ Cardinality(ResourceFilePaths) = Cardinality(TypesOf(resources))
    /\ PathJoin(OutputDir, "provider.tf") \in DOMAIN files
    /\ Cardinality({p \in DOMAIN files : files[p].kind = "provider"}) = 1
    /\ \A p \in ResourceFilePaths :
         \E type \in TypesOf(resources) :
           LET mine == SelectSeq(resources, LAMBDA r : r.type = type)
           IN /\ Len(files[p].blocks) = Len(mine)
              /\ \A i \in 1..Len(mine) : Header(files[p].blocks[i]) = Header(mine[i])

\* C9 witness: three resources of two types have been written as two
\* resource files beside provider.tf.
C9_Witness ==
  /\ pc = "files" /\ ~compact /\ output = "hcl"
  /\ Len(resources) = 3
  /\ Cardinality(TypesOf(resources)) = 2
  /\ Cardinality(ResourceFilePaths) = 2
  /\ Cardinality(DOMAIN files) = 3

\* The characters of types and sanitized names, in code-unit order.
CodeUnitOrder == "-0123456789_abcdefghijklmnopqrstuvwxyz"

\* a comes before b, or is b, in lexicographic order.
RECURSIVE StringLeq(_, _)
StringLeq(a, b) ==
  IF a = "" THEN TRUE
  ELSE IF b = "" THEN FALSE
  ELSE IF CharAt(a, 1) = CharAt(b, 1) THEN StringLeq(From(a, 2), From(b, 2))
  ELSE IndexOf(CodeUnitOrder, CharAt(a, 1)) < IndexOf(CodeUnitOrder, CharAt(b, 1))

\* The sequence of blocks or entries is in (type, name) order.
SortedByTypeName(seq) ==
  \A i \in 1..(Len(seq) - 1) :
    \/ seq[i].type # seq[i + 1].type /\ StringLeq(seq[i].type, seq[i + 1].type)
    \/ seq[i].type = seq[i + 1].type /\ StringLeq(seq[i].name, seq[i + 1].name)

\* C18 as claimed: with the sort option on (the default of HclGenerator),
\* the blocks of every configuration file and the entries of the state
\* document are in lexicographic (type, name) order.
C18_SortedOutput ==
  (pc = "done" /\ output = "hcl") =>
    /\ \A p \in ResourceFilePaths : SortedByTypeName(files[p].blocks)
    /\ SortedByTypeName(files[StatePath].entries)

Headers(list) == [i \in 1..Len(list) |-> Header(list[i])]

\* C25 as claimed: a text-encoding resource file holds the blocks of its
\* resources in the order of the list, in compact mode too, and the state
\* document holds its entries in that order.
C25_DiscoveryOrderKept ==
  (pc = "done" /\ output = "hcl") =>
    /\ \A p \in ResourceFilePaths :
         Headers(files[p].blocks) =
           Headers(SelectSeq(resources,
                             LAMBDA r : r.type \in TypesOf(files[p].blocks)))
    /\ Headers(files[StatePath].entries) = Headers(resources)

\* C27 as claimed: two discovered records of one type with distinct native
\* names have distinct sanitized names.
C27_NamesUniquePerType ==
  \A i, j \in 1..Len(resources) :
    (/\ resources[i].type = resources[j].type
     /\ resources[i].id # resources[j].id) =>
      resources[i].name # resources[j].name

\* ------------------------------------------ post-convert hooks (SpecHook)

\* The assume-role policy documents a role listing returns; the field is
\* optional.
PolicyDocuments ==
  {Undefined,
   Str("{\"ip\": \"${aws:SourceIp}\"}"),
   Str("{\n\"ip\": \"10.0.0.1\"\n}")}

RoleNames == <<"admin", "Deploy", "ops">>

\* The listings of at most n roles, named in the order of RoleNames.
RECURSIVE RoleListings(_)
RoleListings(n) ==
  IF n = 0 THEN {<<>>}
  ELSE LET shorter == RoleListings(n - 1)
       IN shorter
          \cup {Append(l, [RoleName |-> RoleNames[((n - 1) % Len(RoleNames)) + 1],
                           AssumeRolePolicyDocument |-> doc]) :
                  l \in {x \in shorter : Len(x) = n - 1}, doc \in PolicyDocuments}

\* The record sets one zone listing returns.
RecordA ==
  [Name |-> "www.a.com.", Type |-> "A", SetIdentifier |-> "",
   TTL |-> Num("300"), AliasTarget |-> Undefined]
RecordAlias ==
  [Name |-> "\\052.a.com.", Type |-> "A", SetIdentifier |-> "blue",
   TTL |-> Undefined,
   AliasTarget |-> Obj(<<Entry("name", Str("lb.a.com.")), Entry("zone_id", Str("Z9")),
                        Entry("evaluate_target_health", Bool(FALSE))>>)]
\* A record set that carries both an alias target and a TTL.
RecordAliasTtl ==
  [Name |-> "api.a.com.", Type |-> "A", SetIdentifier |-> "",
   TTL |-> Num("60"),
   AliasTarget |-> Obj(<<Entry("name", Str("lb.a.com.")), Entry("zone_id", Str("Z9")),
                        Entry("evaluate_target_health", Bool(TRUE))>>)]
RecordSetListings ==
  {<<>>, <<RecordA>>, <<RecordAlias>>, <<RecordA, RecordAlias>>, <<RecordAliasTtl>>}

HostedZone(id, name, recordSets) == [Id |-> id, Name |-> name, RecordSets |-> recordSets]

\* The hosted-zone listings: zone ids are unique within one listing.
HostedZoneListings ==
  {<<>>}
  \cup {<<HostedZone("/hostedzone/Z1", "a.com.", r1)>> : r1 \in RecordSetListings}
  \cup {<<HostedZone("/hostedzone/Z2", "B.org", r2)>> : r2 \in RecordSetListings}
  \cup {<<HostedZone("/hostedzone/Z1", "a.com.", r1), HostedZone("/hostedzone/Z2", "B.org", r2)>> :
          r1 \in RecordSetListings, r2 \in RecordSetListings}
  \cup {<<HostedZone("/hostedzone/Z2", "B.org", r2), HostedZone("/hostedzone/Z1", "a.com.", r1)>> :
          r1 \in RecordSetListings, r2 \in RecordSetListings}

HealthCheckListings ==
  {<<>>,
   <<[Id |-> "hc-1", Type |-> "HTTP", ChildHealthChecks |-> Absent]>>,
   <<[Id |-> "hc-2", Type |-> "CALCULATED", ChildHealthChecks |-> Present(<<>>)]>>,
   <<[Id |-> "hc-3", Type |-> "CALCULATED", ChildHealthChecks |-> Present(<<"hc-1">>)]>>}

TopicListings ==
  {<<>>,
   <<[TopicArn |-> "arn:aws:sns:us-east-1:1:Alerts", Subscriptions |-> <<>>]>>,
   <<[TopicArn |-> "arn:aws:sns:us-east-1:1:Alerts",
      Subscriptions |-> <<"arn:aws:sns:us-east-1:1:Alerts:s1", "PendingConfirmation">>],
     [TopicArn |-> "arn:aws:sns:us-east-1:1:jobs.fifo", Subscriptions |-> <<>>]>>}

HookCategories == {"iam", "sns", "route53"}

InitHook ==
  /\ pc = "init"
  /\ service \in HookCategories
  /\ resources = <<>>
  /\ hookRuns = 0
  /\ discovered = <<>>
  /\ firstPass = <<>>
  /\ files = NoFiles /\ compact = FALSE /\ output = "hcl"
  /\ record = NoRecord
  /\ SanitizeIdle /\ IncludeIdle /\ ImportIdle

Discovered(list) ==
  /\ resources' = list
  /\ discovered' = list
  /\ pc' = "discovered"
  /\ UNCHANGED <<record, rendered, sanitizeVars, files, compact, output,
                 service, hookRuns, firstPass, importVars>>

\* IAMService.initResources
IamInitResources ==
  /\ pc = "init" /\ service = "iam"
  /\ \E policyNames \in {<<>>, <<"ReadOnly">>},
        roles \in RoleListings(MaxRoles),
        profileNames \in {<<>>, <<"web">>} :
       Discovered(iamInitResources(policyNames, roles, profileNames))

\* SNSService.initResources
SnsInitResources ==
  /\ pc = "init" /\ service = "sns"
  /\ \E topics \in TopicListings : Discovered(snsInitResources(topics))

\* Route53Service.initResources
Route53InitResources ==
  /\ pc = "init" /\ service = "route53"
  /\ \E hostedZones \in HostedZoneListings, healthChecks \in HealthCheckListings :
       Discovered(loadHostedZones(hostedZones) \o loadHealthChecks(healthChecks))

\* Lists a caller hands to the Route53 adapter: a discovered list without
\* the zone resource Z1 (its records stay), and resources built with the
\* default, empty additionalFields.
HandedLists ==
  {SelectSeq(loadHostedZones(hostedZones), LAMBDA r : r.id # "Z1") :
     hostedZones \in HostedZoneListings}
  \cup {<<createResource("Z1_x.a.com._A_", "Z1_x.a.com._A_", "route53_record",
                         <<Entry("name", Str("x.a.com")), Entry("zone_id", Str("Z1")),
                           Entry("ttl", Num("60"))>>, <<>>),
          createResource("hc-1", "hc-1", "route53_health_check",
                         <<Entry("type", Str("CALCULATED")),
                           Entry("child_health_threshold", Num("1"))>>, <<>>)>>}

\* BaseService.setResources on the Route53 adapter.
SetResources ==
  /\ pc = "init" /\ service = "route53"
  /\ \E list \in HandedLists : Discovered(list)

\* service.postConvertHook(): the first run is the one Terraformer.import
\* makes; a caller that holds the adapter may run it again.
PostConvertHook ==
  /\ pc \in {"discovered", "hooked"}
  /\ hookRuns < MaxHookRuns
  /\ resources' = postConvertHook(service, resources)
  /\ hookRuns' = hookRuns + 1
  /\ firstPass' = IF hookRuns = 0 THEN resources' ELSE firstPass
  /\ pc' = "hooked"
  /\ UNCHANGED <<record, rendered, sanitizeVars, files, compact, output,
                 service, discovered, importVars>>

\* The text encoding renders the adapter's list.
RenderHooked ==
  /\ pc = "hooked"
  /\ rendered' = generateHclResources(resources)
  /\ pc' = "rendered"
  /\ UNCHANGED <<record, sanitizeVars, renderVars, hookVars, importVars>>

NextHook ==
  \/ IamInitResources
  \/ SnsInitResources
  \/ Route53InitResources
  \/ SetResources
  \/ PostConvertHook
  \/ RenderHooked

SpecHook == InitHook /\ [][NextHook]_vars

\* The zone resources of the discovered list whose native id is z.
ZonesWithId(z) ==
  {j \in 1..Len(discovered) :
     /\ discovered[j].type = "aws_route53_zone"
     /\ discovered[j].id = z}

\* C6: after the Route53 hook, a record whose zone_id was literally the
\* native id Z of a zone resource of the list reads
\* ${aws_route53_zone.<name of that zone resource>.zone_id}, and no longer Z.
C6_ZoneReference ==
  (service = "route53" /\ hookRuns >= 1) =>
    \A i \in 1..Len(discovered) :
      discovered[i].type = "aws_route53_record" =>
        LET z == Get(discovered[i].attributes, "zone_id").v
        IN \A j \in ZonesWithId(z) :
             /\ Get(resources[i].attributes, "zone_id")
                  = Str("${aws_route53_zone." \o discovered[j].name \o ".zone_id}")
             /\ Get(resources[i].attributes, "zone_id") # Str(z)

\* C6 witness: with two zones listed, a record of the second zone (Z1) has
\* been rewritten to a reference to that zone's resource.
C6_Witness ==
  /\ service = "route53" /\ hookRuns = 1
  /\ Len(resources) >= 3
  /\ discovered[1].id = "Z2"
  /\ \E i \in 1..Len(resources) :
       /\ discovered[i].type = "aws_route53_record"
       /\ Get(discovered[i].attributes, "zone_id") = Str("Z1")
       /\ Get(resources[i].attributes, "zone_id")
            = Str("${aws_route53_zone.z1_a_com.zone_id}")

\* The zone resources of a list whose zone_id metadata is the value.
ZonesKnownAs(list, value) ==
  {j \in 1..Len(list) :
     /\ list[j].type = "aws_route53_zone"
     /\ HasKey(list[j].additionalFields, "zone_id")
     /\ Get(list[j].additionalFields, "zone_id") = value}

\* C19: a run of the Route53 hook leaves the zone_id of a record as it
\* was when no zone resource of the list is known by that value, and the
\* whole of a record or health check that has no additionalFields; it
\* returns a list of the same resources.
C19_LookupMissLeavesLiteral ==
  LET Holds(before, after) ==
        /\ Len(after) = Len(before)
        /\ \A i \in 1..Len(before) :
             /\ after[i].type = before[i].type /\ after[i].name = before[i].name
             /\ (/\ before[i].type = "aws_route53_record"
                 /\ ZonesKnownAs(before, Get(before[i].attributes, "zone_id")) = {}) =>
                  Get(after[i].attributes, "zone_id") = Get(before[i].attributes, "zone_id")
             /\ (/\ before[i].additionalFields = <<>>
                 /\ before[i].type = "aws_route53_health_check") =>
                  after[i] = before[i]
  IN service = "route53" =>
       /\ hookRuns >= 1 => Holds(discovered, firstPass)
       /\ hookRuns >= 2 => Holds(firstPass, resources)

\* The hook has run over a list that holds the zone Z2 and a record of the
\* zone Z1, which is not in the list.
C19_Witness ==
  /\ service = "route53" /\ hookRuns = 1
  /\ \E j \in 1..Len(discovered) : discovered[j].type = "aws_route53_zone"
  /\ \E i \in 1..Len(discovered) :
       /\ discovered[i].type = "aws_route53_record"
       /\ Get(discovered[i].attributes, "zone_id") = Str("Z1")
       /\ ZonesKnownAs(discovered, Str("Z1")) = {}
       /\ Get(resources[i].attributes, "zone_id") = Str("Z1")

\* The rendered blocks of a resource: those with its type and name.
BlocksOf(resource) ==
  {b \in 1..Len(rendered) :
     rendered[b].type = resource.type /\ rendered[b].name = resource.name}

\* C22 as claimed: after the Route53 hook, a record discovered with an
\* alias target has no ttl (none at all, or none with a value) in its
\* attributes merged with its additionalFields, and its rendered block has
\* no ttl field.
C22_TtlDroppedWithAlias ==
  (service = "route53" /\ pc = "rendered") =>
    \A i \in 1..Len(discovered) :
      (/\ discovered[i].type = "aws_route53_record"
       /\ Truthy(Get(discovered[i].additionalFields, "alias"))) =>
        LET merged == Merge(resources[i].attributes, resources[i].additionalFields)
        IN /\ HasKey(merged, "ttl") => Get(merged, "ttl").t \in {"undef", "null"}
           /\ \A b \in BlocksOf(resources[i]) :
                \A f \in 1..Len(rendered[b].fields) : rendered[b].fields[f].k # "ttl"

\* C7 as claimed: a policy string with ${aws:SourceIp}, after the hook and
\* the text encoding, is in the output with $${aws:SourceIp}, the wrapped
\* text unescaped (its double quotes and newlines as they are) between the
\* start and end sentinels of the verbatim block.
C7_PolicyVerbatim ==
  (pc = "rendered" /\ service = "iam" /\ hookRuns = 1) =>
    \A i \in 1..Len(discovered) :
      (/\ discovered[i].type = "aws_iam_role"
       /\ Includes(Get(discovered[i].attributes, "assume_role_policy").v,
                   "${aws:SourceIp}")) =>
        /\ BlocksOf(discovered[i]) # {}
        /\ \A b \in BlocksOf(discovered[i]) :
             /\ Includes(BlockText(rendered[b]), "$${aws:SourceIp}")
             /\ Includes(BlockText(rendered[b]),
                         "<<POLICY\n"
                         \o ReplaceAll(Get(discovered[i].attributes,
                                           "assume_role_policy").v, "${", "$${")
                         \o "\nPOLICY")

\* C10 as claimed: running a category's hook a second time leaves the
\* attributes as the first run left them.
C10_HookIdempotent ==
  hookRuns >= 2 => resources = firstPass

\* ------------------------------------------- Terraformer.import (SpecImport)

\* What DescribeInstances / DescribeVpcs answer in the accounts modelled.
Instance(id, state, nameTag) ==
  [InstanceId |-> id, State |-> state, InstanceType |-> "t3.micro", NameTag |-> nameTag]

InstanceListings ==
  {<<>>,
   <<Instance("i-1", "running", "")>>,
   <<Instance("i-3", "running", "")>>,
   <<Instance("i-1", "running", "web"), Instance("i-3", "stopped", "")>>,
   <<Instance("i-1", "running", ""), Instance("i-2", "running", ""),
     Instance("i-9", "terminated", "")>>}

VpcListings == {<<>>, <<[VpcId |-> "vpc-1", NameTag |-> ""]>>}

Ec2Listings == [Instances : InstanceListings, Vpcs : VpcListings]

BucketListings == {<<>>, <<"logs">>, <<"logs", "My.Bucket">>}

\* What the cloud answers to the adapter of a category.
Listings(category) ==
  CASE category = "ec2" -> Ec2Listings
    [] category = "s3" -> BucketListings
    [] category = "sns" -> TopicListings

\* The options of the runs modelled.  "nosuch" is no category of the
\* provider.
RequestedResources == {<<"ec2">>, <<"s3", "ec2">>, <<"sns", "nosuch", "ec2">>}

FilterLists == {<<>>, <<"ec2=i-1:i-2">>, <<"Type=ec2;Name=instance_type">>}

\* The runs modelled leave every option but resources and verbose at its
\* default, or set one of them.
NonDefaults(opts) ==
  (IF opts.excludes # <<>> THEN 1 ELSE 0) + (IF opts.filters # <<>> THEN 1 ELSE 0)
  + (IF opts.compact THEN 1 ELSE 0) + (IF opts.output # "" THEN 1 ELSE 0)
  + (IF opts.pathOutput # "" THEN 1 ELSE 0) + (IF opts.pathPattern # "" THEN 1 ELSE 0)

ImportOptions ==
  {opts \in [resources : RequestedResources,
             excludes : {<<>>, <<"s3">>},
             filters : FilterLists,
             verbose : BOOLEAN,
             compact : BOOLEAN,
             output : {"", "json"},
             pathOutput : {"", "out"},
             pathPattern : {"", "{output}/{provider}/"}] : NonDefaults(opts) <= 1}

\* What a failed call to the cloud, and a failed fs.writeFile, reject with
\* (as `${error}` prints them).
DiscoveryError == "Error: Throttling"
WriteError == "Error: EIO"

InitImport ==
  /\ pc = "import"
  /\ options \in ImportOptions
  /\ progressCallback \in BOOLEAN
  /\ servicesToImport = <<>>
  /\ idx = 0
  /\ allResources = <<>>
  /\ parsedFilters = <<>>
  /\ found = <<>>
  /\ progress = <<>>
  /\ thrown = ""
  /\ logged = <<>>
  /\ record = NoRecord
  /\ SanitizeIdle /\ IncludeIdle /\ RenderIdle /\ HookIdle

\* import, up to the loop: provider.init, filterServices.
ImportBegin ==
  /\ pc = "import"
  /\ servicesToImport' = filterServices(options.resources, supportedServices,
                                        options.excludes)
  /\ idx' = 0
  /\ allResources' = <<>>
  /\ logged' = logged \o
       <<Info("Starting import for provider: " \o providerName),
         Info("Importing services: " \o Join(servicesToImport', ", "))>>
  /\ pc' = "loop"
  /\ UNCHANGED <<record, rendered, sanitizeVars, renderVars, hookVars,
                 options, progressCallback, parsedFilters, found, progress, thrown>>

\* The callback was given the index of the loop, which counts from 0.
ReportedFromZero ==
  IF progressCallback
  THEN Append(progress, [message |-> "Importing " \o servicesToImport[idx + 1] \o "...",
                         current |-> idx,
                         total |-> Len(servicesToImport)])
  ELSE progress

\* The call the loop makes to the progress callback, if there is one.
Reported ==
  IF progressCallback
  THEN Append(progress, [message |-> "Importing " \o servicesToImport[idx + 1] \o "...",
                         current |-> idx + 1,
                         total |-> Len(servicesToImport)])
  ELSE progress

NotAwaited(position) == position \in {"loop", "service"}

\* The loop is a for loop whose body awaits each call: a pass begins only
\* at the head of the loop, once the pass before it has ended.
Awaited(position) == position = "loop"

\* A pass of the loop, up to the return of initResources: the progress
\* callback, initService, and the adapter's discovery.
ImportDiscover ==
  /\ Awaited(pc)
  /\ idx < Len(servicesToImport)
  /\ LET serviceName == servicesToImport[idx + 1]
     IN \E listing \in Listings(serviceName) :
          LET loaded == initResources(serviceName, listing)
          IN /\ resources' = loaded
             /\ found' = found \o [i \in 1..Len(loaded) |->
                                     [category |-> serviceName, resource |-> loaded[i]]]
  /\ progress' = Reported
  /\ pc' = "service"
  /\ UNCHANGED <<record, rendered, sanitizeVars, files, compact, output, hookVars,
                 options, progressCallback, servicesToImport, idx, allResources,
                 parsedFilters, thrown, logged>>

\* The rest of the pass when nothing throws: applyFilters, postConvertHook,
\* push.
ImportService ==
  /\ pc = "service"
  /\ LET serviceName == servicesToImport[idx + 1]
         filtered == IF Len(options.filters) > 0
                     THEN applyFilters(resources, options.filters)
                     ELSE resources
         serviceResources == postConvertHook(serviceName, filtered)
     IN /\ allResources' = allResources \o serviceResources
        /\ logged' = Append(logged,
                            Info("Imported " \o NumText(Len(serviceResources))
                                 \o " resources from " \o serviceName))
  /\ parsedFilters' = IF Len(options.filters) > 0
                      THEN ParsedFilters(options.filters)
                      ELSE parsedFilters
  /\ resources' = <<>>
  /\ idx' = idx + 1
  /\ pc' = "loop"
  /\ UNCHANGED <<record, rendered, sanitizeVars, files, compact, output, hookVars,
                 options, progressCallback, servicesToImport, found, progress, thrown>>

AccumulatedWithFound(accumulated, serviceResources) == accumulated \o serviceResources

\* The push onto allResources is the last call but one of the try block: a
\* pass that lands in the catch has not made it.
AccumulatedAfterCatch(accumulated, serviceResources) == accumulated

RethrownAlways(opts) == TRUE

\* The catch of the loop: if (options.verbose) throw error.
Rethrown(opts) == opts.verbose

\* A pass in which a call rejects, in initResources (at the head of the
\* loop, after the progress callback) or after it: the catch of the loop
\* logs the error, and rethrows it to the outer catch if options.verbose.
ImportServiceError ==
  /\ pc \in {"loop", "service"}
  /\ idx < Len(servicesToImport)
  /\ progress' = IF pc = "loop" THEN Reported ELSE progress
  /\ LET line == LogError("Error importing " \o servicesToImport[idx + 1] \o ": "
                          \o DiscoveryError)
     IN IF Rethrown(options)
        THEN /\ thrown' = DiscoveryError
             /\ logged' = logged \o <<line, LogError("Import failed: " \o DiscoveryError)>>
             /\ pc' = "rejected"
             /\ idx' = idx
        ELSE /\ thrown' = thrown
             /\ logged' = Append(logged, line)
             /\ pc' = "loop"
             /\ idx' = idx + 1
  /\ allResources' = AccumulatedAfterCatch(allResources, resources)
  /\ resources' = <<>>
  /\ UNCHANGED <<record, rendered, sanitizeVars, files, compact, output, hookVars,
                 options, progressCallback, servicesToImport, parsedFilters, found>>

\* The passes of the loop of generateOutput that have ended once n writes
\* have been made.
RECURSIVE GeneratedFor(_, _)
GeneratedFor(outputs, n) ==
  IF outputs = <<>> \/ Len(Head(outputs).writes) > n THEN <<>>
  ELSE <<Info("Generated files for " \o Head(outputs).serviceName \o " in "
              \o Head(outputs).serviceOutputPath)>>
       \o GeneratedFor(Tail(outputs), n - Len(Head(outputs).writes))

WritesMadeButOne(writes, made) ==
  SubSeq(writes, 1, made) \o SubSeq(writes, made + 2, Len(writes))

\* Each fs.writeFile is awaited and none is in a try block: when the write
\* after the first `made` rejects, those are the writes made.
WritesMade(writes, made) == SubSeq(writes, 1, made)

\* After the loop: generateOutput over the accumulated list.  Every write
\* succeeds, or one of them rejects after those before it were made.
GenerateOutput ==
  /\ pc = "loop"
  /\ idx = Len(servicesToImport)
  /\ LET writes == generateOutput(allResources, options)
         outputs == ServiceOutputs(allResources, options)
     IN \E made \in 0..Len(writes) :
          /\ files' = WriteAll(files, WritesMade(writes, made))
          /\ IF made = Len(writes)
             THEN /\ logged' = logged \o GeneratedFor(outputs, made)
                       \o <<Info("Import completed. Total resources: "
                                 \o NumText(Len(allResources)))>>
                  /\ thrown' = thrown
                  /\ pc' = "resolved"
             ELSE /\ logged' = logged \o GeneratedFor(outputs, made)
                       \o <<LogError("Import failed: " \o WriteError)>>
                  /\ thrown' = WriteError
                  /\ pc' = "rejected"
  /\ UNCHANGED <<record, rendered, sanitizeVars, resources, compact, output, hookVars,
                 options, progressCallback, servicesToImport, idx, allResources,
                 parsedFilters, found, progress>>

NextImport ==
  \/ ImportBegin
  \/ ImportDiscover
  \/ ImportService
  \/ ImportServiceError
  \/ GenerateOutput

SpecImport == InitImport /\ [][NextImport]_vars

\* The resource is in a file of the output: as a block or a grouped
\* resource of a configuration file, or as an entry of a state document.
Same(x, resource) == x.type = resource.type /\ x.name = resource.name

InOutput(resource) ==
  \E p \in DOMAIN files :
    \/ \E b \in 1..Len(files[p].blocks) : Same(files[p].blocks[b], resource)
    \/ \E g \in 1..Len(files[p].groups) :
         \E i \in 1..Len(files[p].groups[g].val) :
           Same(files[p].groups[g].val[i], resource)
    \/ \E e \in 1..Len(files[p].entries) : Same(files[p].entries[e], resource)

\* C4 as claimed: an import with the filter ec2=i-1:i-2 puts a resource the
\* ec2 adapter discovered in the output iff its id is i-1 or i-2, and puts
\* every resource of another category in the output whatever its id.
C4_IdentifierListFilter ==
  (pc = "resolved" /\ options.filters = <<"ec2=i-1:i-2">>) =>
    \A k \in 1..Len(found) :
      IF found[k].category = "ec2"
      THEN InOutput(found[k].resource) <=> found[k].resource.id \in {"i-1", "i-2"}
      ELSE InOutput(found[k].resource)

\* C5 as claimed: an import with the filter Type=ec2;Name=instance_type
\* parses it to a predicate whose acceptableValues is empty, and no
\* resource the ec2 adapter discovered is in the output.
C5_FieldFilterFailClosed ==
  (pc = "resolved" /\ options.filters = <<"Type=ec2;Name=instance_type">>) =>
    /\ \A i \in 1..Len(parsedFilters) :
         \A j \in 1..Len(parsedFilters[i]) :
           /\ parsedFilters[i][j].acceptableValues = <<>>
           /\ isApplicable(parsedFilters[i][j], "ec2")
    /\ \A k \in 1..Len(found) :
         found[k].category = "ec2" => ~InOutput(found[k].resource)

\* The lines the loop logs for a category: its failure, or its success.
ErrorLine(category) ==
  LogError("Error importing " \o category \o ": " \o DiscoveryError)

Failed(category) == \E i \in 1..Len(logged) : logged[i] = ErrorLine(category)

Imported(category) ==
  \E i \in 1..Len(logged) :
    /\ StartsWith(logged[i].message, "Imported ")
    /\ Split(logged[i].message, " resources from ")[2] = category

\* The loop has begun a pass for the category: it has discovered resources
\* of it, reported it to the progress callback, or logged its outcome.
Begun(category) ==
  \/ Failed(category) \/ Imported(category)
  \/ \E k \in 1..Len(found) : found[k].category = category
  \/ \E k \in 1..Len(progress) :
       progress[k].message = "Importing " \o category \o "..."

Accumulated(category) ==
  \E k \in 1..Len(found) :
    /\ found[k].category = category
    /\ \E a \in 1..Len(allResources) : Same(allResources[a], found[k].resource)

\* C11: when the pass of a category fails, none of its resources is
\* accumulated; if options.verbose the import rejects with the error and no
\* later category is begun; otherwise the import does not reject with it,
\* and once the import has ended every later category has its outcome.
C11_CategoryFailure ==
  \A j \in 1..Len(servicesToImport) :
    Failed(servicesToImport[j]) =>
      /\ ~Accumulated(servicesToImport[j])
      /\ IF options.verbose
         THEN /\ pc = "rejected" /\ thrown = DiscoveryError
              /\ \A l \in (j + 1)..Len(servicesToImport) : ~Begun(servicesToImport[l])
         ELSE /\ thrown # DiscoveryError
              /\ pc \in {"resolved", "rejected"} =>
                   \A l \in (j + 1)..Len(servicesToImport) :
                     Failed(servicesToImport[l]) \/ Imported(servicesToImport[l])
              /\ pc = "rejected" => thrown = WriteError

\* A run without options.verbose has resolved although its first category
\* failed, and the resources of a later category are in the output.
C11_Witness ==
  /\ ~options.verbose /\ pc = "resolved" /\ thrown = ""
  /\ Len(servicesToImport) >= 2
  /\ Failed(servicesToImport[1])
  /\ \E k \in 1..Len(found) :
       found[k].category = servicesToImport[2] /\ InOutput(found[k].resource)

\* The caller asked for a category the provider does not have.
AskedUnregistered ==
  \E i \in 1..Len(options.resources) :
    /\ options.resources[i] # "*"
    /\ ~ArrayIncludes(supportedServices, options.resources[i])

\* C12 as claimed: an import asked for an unregistered category raises an
\* error at once, with and without options.verbose: it discovers nothing,
\* writes nothing and never resolves.
C12_UnregisteredCategoryFatal ==
  AskedUnregistered =>
    /\ pc # "resolved"
    /\ found = <<>> /\ files = NoFiles

\* C13 as claimed: when an import has rejected because a category failed,
\* the resources of every category that was imported before the failure
\* are in files on disk.
C13_PartialResultsWritten ==
  (pc = "rejected" /\ thrown = DiscoveryError) =>
    \A k \in 1..Len(found) :
      Imported(found[k].category) => InOutput(found[k].resource)

\* The write is on disk.
Written(write) == write.path \in DOMAIN files /\ files[write.path] = write.content

\* C14: an import resolves only with every file of the output written; when
\* a write fails the import rejects with that error, with and without
\* options.verbose, the files on disk are those of the writes before the
\* failing one, and no file of a later directory is written.
C14_WriteFailureFatal ==
  LET outputs == ServiceOutputs(allResources, options)
      writes == generateOutput(allResources, options)
      Apart == \A g, h \in 1..Len(outputs) :
                 g # h => outputs[g].serviceOutputPath # outputs[h].serviceOutputPath
      Complete(g) == \A w \in 1..Len(outputs[g].writes) : Written(outputs[g].writes[w])
      Untouched(g) == \A w \in 1..Len(outputs[g].writes) :
                        outputs[g].writes[w].path \notin DOMAIN files
  IN /\ pc = "resolved" =>
          /\ \A w \in 1..Len(writes) : writes[w].path \in DOMAIN files
          /\ Apart => \A g \in 1..Len(outputs) : Complete(g)
     /\ thrown = WriteError =>
          /\ pc = "rejected"
          /\ logged[Len(logged)] = LogError("Import failed: " \o WriteError)
          /\ \E made \in 0..(Len(writes) - 1) :
               files = WriteAll(NoFiles, SubSeq(writes, 1, made))
          /\ Apart =>
               \E g \in 1..Len(outputs) :
                 /\ ~Complete(g)
                 /\ \A h \in 1..(g - 1) : Complete(h)
                 /\ \A h \in (g + 1)..Len(outputs) : Untouched(h)

\* A run without options.verbose has rejected with a write error after it
\* wrote its first directory and the first file of its second.
C14_Witness ==
  /\ ~options.verbose /\ pc = "rejected" /\ thrown = WriteError
  /\ Len(ServiceOutputs(allResources, options)) >= 2
  /\ Written(ServiceOutputs(allResources, options)[1].writes[1])
  /\ Written(ServiceOutputs(allResources, options)[2].writes[1])

\* The place of a category in the caller's list (0 if it is not there).
PlaceOf(category) ==
  IF ArrayIncludes(options.resources, category)
  THEN CHOOSE i \in 1..Len(options.resources) :
         /\ options.resources[i] = category
         /\ \A j \in 1..(i - 1) : options.resources[j] # category
  ELSE 0

\* C15 as claimed: the categories are processed in the order of the
\* caller's list: of two categories the import discovers, the one the
\* caller listed first is the one discovered first.
C15_CallerOrder ==
  \A i, j \in 1..Len(servicesToImport) :
    (/\ i < j
     /\ Imported(servicesToImport[i])
     /\ Begun(servicesToImport[j])
     /\ ~ArrayIncludes(options.resources, "*")) =>
      PlaceOf(servicesToImport[i]) < PlaceOf(servicesToImport[j])

\* The pass of the category has ended: its outcome is logged.
Settled(category) == Failed(category) \/ Imported(category)

\* How many passes of the loop have ended.
Outcomes ==
  Cardinality({i \in 1..Len(logged) :
                 \/ StartsWith(logged[i].message, "Imported ")
                 \/ StartsWith(logged[i].message, "Error importing ")})

\* C20: a category's pass begins only when the pass of the category before
\* it has ended; at most one category has begun and not ended; and the
\* progress callback has been called for at most one pass more than have
\* ended.
C20_OneCategoryAtATime ==
  /\ \A k \in 2..Len(servicesToImport) :
       Begun(servicesToImport[k]) => Settled(servicesToImport[k - 1])
  /\ Cardinality({k \in 1..Len(servicesToImport) :
                    Begun(servicesToImport[k]) /\ ~Settled(servicesToImport[k])}) <= 1
  /\ progressCallback => Len(progress) \in {Outcomes, Outcomes + 1}
  /\ \A k \in 1..Len(found) :
       \/ Settled(found[k].category)
       \/ pc = "service" /\ found[k].category = servicesToImport[idx + 1]
                         /\ \E r \in 1..Len(resources) : resources[r] = found[k].resource

\* The second category of a run is being processed: the callback has been
\* called for it, its adapter holds what it discovered, and the first
\* category's outcome is logged.
C20_Witness ==
  /\ pc = "service" /\ idx = 1 /\ progressCallback
  /\ Len(progress) = 2 /\ Outcomes = 1
  /\ resources # <<>>
  /\ Settled(servicesToImport[1]) /\ ~Settled(servicesToImport[2])

\* C26 as claimed: whatever the path pattern, the directories of two groups
\* differ, no two groups write the same path, and after the import every
\* file a group wrote is on disk as that group wrote it.
C26_DisjointDirectories ==
  pc = "resolved" =>
    LET outputs == ServiceOutputs(allResources, options)
    IN /\ \A g, h \in 1..Len(outputs) :
            g # h =>
              /\ outputs[g].serviceOutputPath # outputs[h].serviceOutputPath
              /\ \A w \in 1..Len(outputs[g].writes), v \in 1..Len(outputs[h].writes) :
                   outputs[g].writes[w].path # outputs[h].writes[v].path
       /\ \A g \in 1..Len(outputs) :
            \A w \in 1..Len(outputs[g].writes) : Written(outputs[g].writes[w])

\* The call of the progress callback for the k-th selected category.
CallFor(k) ==
  [message |-> "Importing " \o servicesToImport[k] \o "...",
   current |-> k,
   total |-> Len(servicesToImport)]

\* C28 as claimed: once the import has ended, a progress callback has been
\* called exactly once for each selected category, with currentIndex 1..n
\* in order and totalCount n.
C28_ProgressOncePerSelected ==
  (progressCallback /\ pc \in {"resolved", "rejected"}) =>
    progress = [k \in 1..Len(servicesToImport) |-> CallFor(k)]

\* C28 amended: the progress callback is called exactly once for each
\* selected category the loop reaches, before its discovery and also when it
\* then fails, with currentIndex 1, 2, ... in order and totalCount n; the
\* loop reaches every selected category, except those after a category that
\* failed with options.verbose set.
C28_ProgressOncePerReached ==
  progressCallback =>
    LET n == Len(servicesToImport)
        reached == idx + (IF \/ pc = "service"
                             \/ pc = "rejected" /\ thrown = DiscoveryError
                          THEN 1 ELSE 0)
    IN /\ Len(progress) = reached
       /\ \A k \in 1..Len(progress) : progress[k] = CallFor(k)
       /\ \A k \in 1..Len(found) :
            \E c \in 1..Len(progress) :
              progress[c].message = "Importing " \o found[k].category \o "..."
       /\ \A k \in 1..n :
            Settled(servicesToImport[k]) =>
              Cardinality({c \in 1..Len(progress) : progress[c] = CallFor(k)}) = 1
       /\ (pc \in {"resolved", "rejected"} /\ thrown # DiscoveryError) =>
            Len(progress) = n
       /\ (options.verbose /\ thrown = DiscoveryError) =>
            Len(progress) = idx + 1
       /\ ~options.verbose => thrown # DiscoveryError

\* An import without options.verbose has resolved after progress calls 1/2
\* and 2/2, although its first category failed.
C28_Witness ==
  /\ progressCallback /\ ~options.verbose /\ pc = "resolved"
  /\ Len(servicesToImport) = 2
  /\ Failed(servicesToImport[1])
  /\ progress = <<CallFor(1), CallFor(2)>>

\* No resource a failed category discovered is in the accumulated list.
NothingFromFailed ==
  \A j \in 1..Len(servicesToImport) :
    Failed(servicesToImport[j]) =>
      \A k \in 1..Len(found) :
        found[k].category = servicesToImport[j] =>
          \A a \in 1..Len(allResources) : allResources[a].id # found[k].resource.id

AccumulatedInOutput ==
  pc = "resolved" => \A a \in 1..Len(allResources) : InOutput(allResources[a])

\* C29: without options.verbose, a pass that fails leaves the accumulated
\* list as it was and lets the loop go on; a category whose pass failed has
\* no resource in the accumulated list, also when it had discovered some;
\* and when the import resolves every accumulated resource is in the output.
C29_FailedCategoryContributesNothing ==
  [][~options.verbose =>
       /\ ImportServiceError =>
            /\ allResources' = allResources
            /\ pc' = "loop" /\ thrown' = thrown
       /\ NothingFromFailed'
       /\ AccumulatedInOutput']_vars

\* An import without options.verbose has resolved after its second category
\* failed with resources discovered, and the resource of its first category
\* is in the output.
C29_Witness ==
  /\ ~options.verbose /\ pc = "resolved"
  /\ Len(servicesToImport) = 2
  /\ Imported(servicesToImport[1]) /\ Failed(servicesToImport[2])
  /\ \E k \in 1..Len(found) : found[k].category = servicesToImport[2]
  /\ Len(allResources) >= 1
  /\ \A a \in 1..Len(allResources) : InOutput(allResources[a])

StatePaths == {p \in DOMAIN files : files[p].kind = "state"}

\* The directory of a state document.
DirectoryOf(statePath) == SubSeq(statePath, 1, Len(statePath) - Len("terraform.tfstate"))

RECURSIVE EntriesIn(_)
EntriesIn(paths) ==
  IF paths = {} THEN 0
  ELSE LET p == CHOOSE q \in paths : TRUE
       IN Len(files[p].entries) + EntriesIn(paths \ {p})

\* The places (state document, position) of the entries of a resource.
EntriesOf(resource) ==
  {<<p, e>> \in StatePaths \X (1..Len(allResources)) :
     /\ e <= Len(files[p].entries)
     /\ files[p].entries[e].type = resource.type
     /\ files[p].entries[e].name = resource.name
     /\ files[p].entries[e].attributes = resource.attributes}

\* C30: after a resolved import with the default path pattern, every
\* accumulated resource has its entry in the state document of exactly one
\* directory, once; the state documents hold as many entries as there are
\* accumulated resources; there is one directory per type that has
\* resources, every file is in such a directory, and a state document is
\* never empty.
C30_OneStateEntryEach ==
  (pc = "resolved" /\ options.pathPattern = "") =>
    /\ \A a \in 1..Len(allResources) :
         /\ Cardinality(EntriesOf(allResources[a])) =
              Cardinality({b \in 1..Len(allResources) :
                             /\ Same(allResources[b], allResources[a])
                             /\ allResources[b].attributes = allResources[a].attributes})
         /\ Cardinality({m[1] : m \in EntriesOf(allResources[a])}) = 1
    /\ EntriesIn(StatePaths) = Len(allResources)
    /\ Cardinality(StatePaths) = Cardinality(TypesOf(allResources))
    /\ \A p \in StatePaths : files[p].entries # <<>>
    /\ \A p \in DOMAIN files :
         \E q \in StatePaths : StartsWith(p, DirectoryOf(q))
    /\ allResources = <<>> => files = NoFiles

\* An import of ec2 and s3 has resolved with two resources of different
\* types accumulated and none of the s3 category, which discovered none: two
\* state documents, no s3_bucket directory.
C30_Witness ==
  /\ pc = "resolved" /\ options.pathPattern = ""
  /\ servicesToImport = <<"ec2", "s3">>
  /\ Imported("s3")
  /\ Len(allResources) = 2
  /\ Cardinality(StatePaths) = 2
  /\ \A p \in DOMAIN files : ~Includes(p, "s3_bucket")

\* --------------------------------------------- parseFilter (SpecFilter)

\* The filter expressions parsed: every string of a letter and the three
\* separators up to MaxFilterLen, and some of the documented forms.
FilterAlphabet == "a=;:"

RawFilters ==
  StringsUpTo(FilterAlphabet, MaxFilterLen)
  \cup {"ec2", "instance_type", "Type:ec2;Name:instance_type",
        "ec2=i-1:i-2", "Type=ec2;Name=instance_type",
        "Type=ec2;Name=instance_type;Value=t3.micro:t3.small",
        "Name=instance_type", "Type=ec2",
        "Name=instance_type;Value=t3.micro", "Type=ec2;Value=t3.micro"}

InitFilter ==
  /\ pc = "filters"
  /\ \E rawFilter \in RawFilters : options = [NoOptions EXCEPT !.filters = <<rawFilter>>]
  /\ progressCallback = FALSE
  /\ servicesToImport = <<>> /\ idx = 0 /\ allResources = <<>>
  /\ parsedFilters = <<>> /\ found = <<>> /\ progress = <<>> /\ thrown = ""
  /\ logged = <<>>
  /\ record = NoRecord
  /\ SanitizeIdle /\ IncludeIdle /\ RenderIdle /\ HookIdle

\* Terraformer.applyFilters on an adapter that discovered nothing: the
\* call of service.parseFilter for each expression.
ApplyFilters ==
  /\ pc = "filters"
  /\ parsedFilters' = ParsedFilters(options.filters)
  /\ resources' = applyFilters(resources, options.filters)
  /\ pc' = "filtered"
  /\ UNCHANGED <<record, rendered, sanitizeVars, files, compact, output, hookVars,
                 options, progressCallback, servicesToImport, idx, allResources,
                 found, progress, thrown, logged>>

NextFilter == ApplyFilters

SpecFilter == InitFilter /\ [][NextFilter]_vars

\* C16 as claimed: for an expression without "=", parseFilter returns no
\* predicate.
C16_MalformedYieldsNoPredicate ==
  (pc = "filtered" /\ ~Includes(options.filters[1], "=")) =>
    parsedFilters = <<<<>>>>

\* <output>/<provider>/<category>/
CategoryDirectory(category) ==
  (IF options.pathOutput # "" THEN options.pathOutput ELSE "generated")
  \o "/" \o providerName \o "/" \o category \o "/"

\* C17 as claimed: when an import has resolved, every resource a category
\* discovered is in a configuration file of the directory named after the
\* category and in the terraform.tfstate of that directory.
C17_CategoryDirectory ==
  pc = "resolved" =>
    \A k \in 1..Len(found) :
      LET dir == CategoryDirectory(found[k].category)
          statePath == dir \o "terraform.tfstate"
      IN /\ \E p \in DOMAIN files :
              /\ StartsWith(p, dir)
              /\ \/ \E b \in 1..Len(files[p].blocks) :
                      Same(files[p].blocks[b], found[k].resource)
                 \/ \E g \in 1..Len(files[p].groups) :
                      \E i \in 1..Len(files[p].groups[g].val) :
                        Same(files[p].groups[g].val[i], found[k].resource)
         /\ statePath \in DOMAIN files
         /\ \E e \in 1..Len(files[statePath].entries) :
              Same(files[statePath].entries[e], found[k].resource)

\* The text after the prefix in the first clause of the expression that
\* begins with it ("" if no clause does).
ClauseAfter(rawFilter, prefix) ==
  LET parts == Split(rawFilter, ";")
      with == SelectSeq(parts, LAMBDA part : StartsWith(part, prefix))
  IN IF with = <<>> THEN "" ELSE From(with[1], Len(prefix) + 1)

\* C21 as claimed: for an expression in field form with a Name= clause,
\* whichever clauses are there, the predicate's category is the text after
\* Type= ('' without one), its fieldPath the text after Name=, and its
\* acceptableValues the colon-separated list after Value=.
C21_ClausesMayBeOmitted ==
  (pc = "filtered" /\ Includes(options.filters[1], "Name=")) =>
    LET rawFilter == options.filters[1]
    IN parsedFilters =
         <<<<[serviceName |-> ClauseAfter(rawFilter, "Type="),
              fieldPath |-> ClauseAfter(rawFilter, "Name="),
              acceptableValues |->
                IF ClauseAfter(rawFilter, "Value=") = "" THEN <<>>
                ELSE Split(ClauseAfter(rawFilter, "Value="), ":")]>>>>

====
